---- MODULE Spec2Model ----
(***************************************************************************)
(* A model of mf/examples/gene_func_prediction.py: the ARFF reader         *)
(* transform_data (with the FunCat hierarchy propagation), the normalizer  *)
(* preprocess and the class assignment rules of assign_labels.             *)
(*                                                                         *)
(* Text is kept in split form.  A token or a cell of a data row is the     *)
(* list of its ","- or "@"-separated items, and an item is the list of its *)
(* "/"-separated segments: the word numeric is <<<<"numeric">>>> and the   *)
(* class value 1/2/0/0@1/2/3/4 is <<<<"1","2","0","0">>,                   *)
(* <<"1","2","3","4">>>>.  A python dict is a TLA+ function; a numpy       *)
(* matrix is a record of its shape and its leading rows (the rows below    *)
(* them are zero, as np.zeros left them).                                  *)
(***************************************************************************)
EXTENDS Integers, Sequences, FiniteSets, TLC

VARIABLES
    \* transform_data
    file, include_meta, section, pos, class2idx, attr2idx, idx_attr,
    idx_class, idx, feature, used_idx, idxs, attr_data, class_data, ret, exc,
    \* assign_labels
    corrs, train, idx2class, method, test_idx, todo, labels, key, assigned,
    \* preprocess
    data, normalized,
    \* _join
    jtrain, valid, tv_data, joining

tvars == <<file, include_meta, section, pos, class2idx, attr2idx, idx_attr,
           idx_class, idx, feature, used_idx, idxs, attr_data, class_data,
           ret, exc>>

avars == <<corrs, train, idx2class, method, test_idx, todo, labels, key,
           assigned>>

pvars == <<data, normalized>>

jvars == <<jtrain, valid, tv_data, joining>>

vars == <<tvars, avars, pvars, jvars>>

----------------------------------------------------------------------------
(* Bounds of the explored inputs.                                          *)

\* data rows of an input file
MaxRows == 2

\* declarations in a header whose attribute declarations vary
MaxDecls == 3

\* train genes of a call of assign_labels
MaxTrain == 2

\* row capacity of the pre-allocated matrices, np.zeros((1e4, ...))
Capacity == 10000

\* the default of assign_labels' method, 0.001, in thousandths
DefaultThreshold == 1

----------------------------------------------------------------------------
(* Generic helpers.                                                        *)

Range(f) == {f[x] : x \in DOMAIN f}

Min(a, b) == IF a <= b THEN a ELSE b

MaxOf(S) == CHOOSE x \in S : \A y \in S : y <= x

MinOf(S) == CHOOSE x \in S : \A y \in S : x <= y

Abs(x) == IF x < 0 THEN -x ELSE x

Rev(s) == [i \in 1..Len(s) |-> s[Len(s) + 1 - i]]

\* s[:n] of a python list
Take(s, n) == SubSeq(s, 1, Min(n, Len(s)))

Last(s) == s[Len(s)]

EmptyDict == [x \in {} |-> 0]

\* d[k] = v added to (or overwritten in) dict d
DictSet(d, k, v) == [x \in DOMAIN d \cup {k} |-> IF x = k THEN v ELSE d[x]]

\* the orders in which a set can be enumerated
Orders(S) == {s \in [1..Cardinality(S) -> S] : Range(s) = S}

Tok(w) == <<<<w>>>>

----------------------------------------------------------------------------
(* numpy matrices.                                                         *)

\* np.mat(np.zeros((n, m)))
Zeros(n, m) == [shape0 |-> n, shape1 |-> m, data |-> <<>>]

ZeroRow(m) == [j \in 1..m |-> 0]

\* row r (from 0) of M as a list
RowOf(M, r) == IF r < Len(M.data) THEN M.data[r + 1] ELSE ZeroRow(M.shape1)

\* M[r, c]
Cell(M, r, c) == RowOf(M, r)[c + 1]

InBounds(M, r, c) == r >= 0 /\ r < M.shape0 /\ c >= 0 /\ c < M.shape1

\* M[r, c] = v, for an index in bounds
SetCell(M, r, c, v) ==
    LET n == IF r < Len(M.data) THEN Len(M.data) ELSE r + 1
        padded == [i \in 1..n |-> RowOf(M, i - 1)]
    IN  [M EXCEPT !.data = [padded EXCEPT ![r + 1][c + 1] = v]]

\* M[:n, :]
RowSlice(M, n) ==
    [shape0 |-> Min(n, M.shape0), shape1 |-> M.shape1,
     data |-> Take(M.data, n)]

----------------------------------------------------------------------------
(* transform_data, lines 110-178.                                          *)

\* float(text) of the numeric texts the input files use
FloatOf(cell) ==
    CASE cell = Tok("-1") -> -1
      [] cell = Tok("2") -> 2
      [] cell = Tok("0") -> 0

\* _reverse: dict(zip(object2idx.values(), object2idx.keys())).  Of the keys
\* that share a value the last one zipped stays; only the dict made by
\* enumerate() can have such keys, and it is walked in ascending order.
_reverse(object2idx) ==
    [v \in Range(object2idx) |->
        LET ks == {k \in DOMAIN object2idx : object2idx[k] = v}
        IN  IF Cardinality(ks) = 1 THEN CHOOSE k \in ks : TRUE ELSE MaxOf(ks)]

\* enumerate counting from 1
EnumerateFromOne(items) == [i \in 1..Len(items) |-> items[i]]

\* dict(list(enumerate(items)))
Enumerate(items) == [i \in 0..(Len(items) - 1) |-> items[i + 1]]

\* "/".join(cl_a[:n] + ['0'] * (4 - n)), the ancestor of cl at depth n
Ancestor(cl, n) == Take(cl, n) \o [i \in 1..(4 - n) |-> "0"]

\* class_data[feature, c] += w; an index out of bounds raises IndexError
Incr(st, r, c, w) ==
    IF st.exc # "" THEN st
    ELSE IF ~InBounds(st.m, r, c) THEN [st EXCEPT !.exc = "IndexError"]
    ELSE [st EXCEPT !.m = SetCell(st.m, r, c, Cell(st.m, r, c) + w)]

\* the same, when key cl is in the registry
IncrIfKnown(st, r, c2i, cl, w) ==
    IF cl \in DOMAIN c2i THEN Incr(st, r, c2i[cl], w) ELSE st

\* the loop body with the depth-2 ancestor credited 3 instead of 2
UpdateClassFlat(st, r, c2i, cl) ==
    IF st.exc # "" THEN st
    ELSE IF cl \notin DOMAIN c2i THEN [st EXCEPT !.exc = "KeyError"]
    ELSE LET direct == Incr(st, r, c2i[cl], 4)
             a3 == IncrIfKnown(direct, r, c2i, Ancestor(cl, 3), 3)
             a2 == IncrIfKnown(a3, r, c2i, Ancestor(cl, 2), 3)
         IN  IncrIfKnown(a2, r, c2i, Ancestor(cl, 1), 1)

\* lines 159-171: the body of the loop over the labels of a row
UpdateClass(st, r, c2i, cl) ==
    IF st.exc # "" THEN st
    ELSE IF cl \notin DOMAIN c2i THEN [st EXCEPT !.exc = "KeyError"]
    ELSE LET direct == Incr(st, r, c2i[cl], 4)
             a3 == IncrIfKnown(direct, r, c2i, Ancestor(cl, 3), 3)
             a2 == IncrIfKnown(a3, r, c2i, Ancestor(cl, 2), 2)
         IN  IncrIfKnown(a2, r, c2i, Ancestor(cl, 1), 1)

\* lines 157-171: for cl in class_var
RECURSIVE UpdateClasses(_, _, _, _, _)
UpdateClasses(st, r, c2i, class_var, n) ==
    IF n > Len(class_var) THEN st
    ELSE UpdateClasses(UpdateClass(st, r, c2i, class_var[n]), r, c2i,
                       class_var, n + 1)

\* line 175: abs(float(values[idx] if values[idx] != '?' else 0.))
AttrValue(cell) == Abs(IF cell # Tok("?") THEN FloatOf(cell) ELSE 0)

\* lines 173-176: for idx in idxs, writing column i = 0, 1, ...
RECURSIVE UpdateAttrs(_, _, _, _, _)
UpdateAttrs(st, r, order, values, n) ==
    IF n > Len(order) \/ st.exc # "" THEN st
    ELSE IF order[n] >= Len(values) \/ ~InBounds(st.m, r, n - 1)
         THEN [st EXCEPT !.exc = "IndexError"]
    ELSE UpdateAttrs(
           [st EXCEPT !.m = SetCell(st.m, r, n - 1, AttrValue(values[order[n] + 1]))],
           r, order, values, n + 1)

----------------------------------------------------------------------------
(* The input files.                                                        *)

K1 == <<"1", "0", "0", "0">>
K2 == <<"1", "2", "0", "0">>
K3 == <<"1", "2", "3", "0">>
K4 == <<"1", "2", "3", "4">>

\* the FunCat keys of the files: one path of the hierarchy
KeyPath == <<K1, K2, K3, K4>>

KeyUniverse == Range(KeyPath)

\* the keys of KeyPath at the positions S, in path order
PathKeys(S) ==
    LET F[i \in 0..Len(KeyPath)] ==
          IF i = 0 THEN <<>>
          ELSE IF i \in S THEN Append(F[i - 1], KeyPath[i]) ELSE F[i - 1]
    IN  F[Len(KeyPath)]

\* key lists of a class declaration: every nonempty choice of keys, in path
\* order and reversed, and lists that name a key twice
KeyLists ==
    LET plain == {PathKeys(S) : S \in (SUBSET (1..Len(KeyPath))) \ {{}}}
    IN  plain \cup {Rev(l) : l \in plain}
          \cup {<<K1, K1>>, <<K1, K1, K2>>, <<K1, K2, K1>>, <<K2, K1, K1>>}

AttrNames == {"a", "b"}

NumVals == {Tok("?"), Tok("-1"), Tok("2")}

NumDecl(n) == <<Tok("@ATTRIBUTE"), Tok(n), Tok("numeric")>>

StrDecl == <<Tok("@ATTRIBUTE"), Tok("s"), Tok("string")>>

ClassDecl(l) == <<Tok("@ATTRIBUTE"), Tok("class"), Tok("hierarchical"), l>>

\* the declaration with a "%" placeholder before the key list
ClassDeclPct(l) ==
    <<Tok("@ATTRIBUTE"), Tok("class"), Tok("classes"), Tok("%"), Tok("x"), l>>

RelationLine == <<Tok("@RELATION"), Tok("yeast")>>

DataLine == <<Tok("@DATA")>>

IsNumDecl(d) == d[1] = Tok("@ATTRIBUTE") /\ d[3] = Tok("numeric")

IsClassDecl(d) == d[1] = Tok("@ATTRIBUTE") /\ d[2] = Tok("class")

\* the class values of a row: one listed key or two, or one key of the
\* hierarchy (listed or not)
LabelCells(l) ==
    LET listed == {i \in 1..Len(KeyPath) : KeyPath[i] \in Range(l)}
    IN  {<<k>> : k \in KeyUniverse}
          \cup {<<KeyPath[p[1]], KeyPath[p[2]]>> :
                  p \in {p \in listed \X listed : p[1] <= p[2]}}

\* headers whose class declaration varies
ClassHeaders ==
    {<<ClassDecl(l), DataLine>> : l \in KeyLists}
      \cup {<<RelationLine, StrDecl, ClassDeclPct(l), DataLine>> :
               l \in {l \in KeyLists : Len(l) = 2}}

\* headers of up to MaxDecls declarations whose attribute declarations vary,
\* one of them the class unless the header is a single declaration or none
AttrHeaders ==
    LET choices == {NumDecl(n) : n \in AttrNames} \cup {StrDecl, ClassDecl(<<K2, K1>>)}
        all == UNION {[1..n -> choices] : n \in 0..MaxDecls}
        classes(h) == Cardinality({c \in 1..Len(h) : IsClassDecl(h[c])})
    IN  {h \o <<DataLine>> : h \in {h \in all : classes(h) = 1 \/ (Len(h) <= 1 /\ classes(h) = 0)}}

Headers == ClassHeaders \cup AttrHeaders

\* the @ATTRIBUTE lines of a header, in order
Decls(header) == SelectSeq(header, LAMBDA l : l[1] = Tok("@ATTRIBUTE"))

\* the rows of one cell per declaration decls[1..n]: a numeric text under a
\* numeric attribute, a class value under the class
RECURSIVE RowsOf(_, _, _)
RowsOf(decls, labelCells, n) ==
    IF n = 0 THEN {<<>>}
    ELSE LET cells == IF IsNumDecl(decls[n]) THEN NumVals
                      ELSE IF IsClassDecl(decls[n]) THEN labelCells
                      ELSE {Tok("x")}
         IN  {Append(r, v) : r \in RowsOf(decls, labelCells, n - 1), v \in cells}

\* the data rows a file with this header may hold; the class value is the
\* first listed key when the header declares numeric attributes too
DataRows(header) ==
    LET decls == Decls(header)
        cd == {c \in 1..Len(decls) : IsClassDecl(decls[c])}
        keys == Last(decls[CHOOSE c \in cd : TRUE])
        labelCells == IF cd = {} THEN {}
                      ELSE IF \E c \in 1..Len(decls) : IsNumDecl(decls[c])
                      THEN {<<keys[1]>>} ELSE LabelCells(keys)
    IN  IF decls = <<>> THEN {<<Tok("")>>}
        ELSE RowsOf(decls, labelCells, Len(decls))

----------------------------------------------------------------------------
(* transform_data as a state machine: one step per line of the file.       *)

NoMatrix == Zeros(0, 0)

NoRet == [returned |-> FALSE]

\* the variables of a function that is not running
TransformIdle ==
    /\ file = [header |-> <<>>, rows |-> <<>>]
    /\ include_meta = FALSE
    /\ section = "idle"
    /\ pos = 0
    /\ class2idx = EmptyDict
    /\ attr2idx = EmptyDict
    /\ idx_attr = 0
    /\ idx_class = 0
    /\ idx = 0
    /\ feature = 0
    /\ used_idx = {}
    /\ idxs = <<>>
    /\ attr_data = NoMatrix
    /\ class_data = NoMatrix
    /\ ret = NoRet
    /\ exc = ""

AssignIdle ==
    /\ corrs = [shape0 |-> 0, cols |-> <<>>]
    /\ train = [feat |-> 0, class |-> <<>>]
    /\ idx2class = EmptyDict
    /\ method = [type |-> "str", val |-> "idle"]
    /\ test_idx = 0
    /\ todo = <<>>
    /\ labels = EmptyDict
    /\ key = 0
    /\ assigned = "idle"

PreprocessIdle ==
    /\ data = [attr |-> <<>>]
    /\ normalized = "idle"

NoDataset == [feat |-> 0, attr |-> NoMatrix, class |-> NoMatrix]

JoinIdle ==
    /\ jtrain = NoDataset
    /\ valid = NoDataset
    /\ tv_data = NoDataset
    /\ joining = "idle"

TransformInit ==
    /\ file \in {[header |-> h, rows |-> <<>>] : h \in Headers}
    /\ include_meta \in BOOLEAN
    /\ section = "h"
    /\ pos = 0
    /\ class2idx = EmptyDict
    /\ attr2idx = EmptyDict
    /\ idx_attr = 0
    /\ idx_class = 0
    /\ idx = 0
    /\ feature = 0
    /\ used_idx = {}
    /\ idxs = <<>>
    /\ attr_data = NoMatrix
    /\ class_data = NoMatrix
    /\ ret = NoRet
    /\ exc = ""
    /\ AssignIdle
    /\ PreprocessIdle
    /\ JoinIdle

\* the tokens of the header line being read
Tokens == file.header[pos + 1]

InHeader == section = "h" /\ exc = "" /\ pos < Len(file.header)

\* lines 139-147: an @ATTRIBUTE line
ReadAttribute ==
    /\ InHeader
    /\ Tokens[1] = Tok("@ATTRIBUTE")
    /\ LET numeric == Tokens[3] \in {Tok("numeric")}
           isclass == Tokens[2] \in {Tok("class")}
                        /\ Tokens[3] \in {Tok("hierarchical"), Tok("classes")}
       IN  /\ attr2idx' = IF numeric THEN DictSet(attr2idx, Tokens[2][1][1], idx_attr)
                          ELSE attr2idx
           /\ idx_attr' = IF numeric THEN idx_attr + 1 ELSE idx_attr
           /\ used_idx' = IF numeric THEN used_idx \cup {idx} ELSE used_idx
           /\ class2idx' = IF isclass
                           THEN _reverse(Enumerate(IF Tokens[4] # Tok("%")
                                                   THEN Tokens[4] ELSE Tokens[6]))
                           ELSE class2idx
           /\ idx_class' = IF isclass THEN idx ELSE idx_class
    /\ idx' = idx + 1
    /\ pos' = pos + 1
    /\ UNCHANGED <<file, include_meta, section, feature, idxs, attr_data,
                   class_data, ret, exc>>
    /\ UNCHANGED <<avars, pvars, jvars>>

\* lines 148-152: the @DATA line.  idxs is a set; the order in which the
\* loop of line 174 walks it is the set's own, fixed once the set is built.
ReadData ==
    /\ InHeader
    /\ Tokens[1] = Tok("@DATA")
    /\ section' = "d"
    /\ idxs' \in Orders((0..(idx - 1)) \cap used_idx)
    /\ attr_data' = Zeros(Capacity, Cardinality(DOMAIN attr2idx))
    /\ class_data' = Zeros(Capacity, Cardinality(DOMAIN class2idx))
    /\ pos' = pos + 1
    /\ UNCHANGED <<file, include_meta, class2idx, attr2idx, idx_attr,
                   idx_class, idx, feature, used_idx, ret, exc>>
    /\ UNCHANGED <<avars, pvars, jvars>>

\* a header line that is neither: skipped
ReadOther ==
    /\ InHeader
    /\ Tokens[1] \notin {Tok("@ATTRIBUTE"), Tok("@DATA")}
    /\ pos' = pos + 1
    /\ UNCHANGED <<file, include_meta, section, class2idx, attr2idx, idx_attr,
                   idx_class, idx, feature, used_idx, idxs, attr_data,
                   class_data, ret, exc>>
    /\ UNCHANGED <<avars, pvars, jvars>>

\* lines 154-177: the body of the loop for a data row.  An exception ends
\* the call, after the updates made before it.
ReadValues(values) ==
    LET class_var == values[idx_class + 1]
        cls == UpdateClasses([m |-> class_data, exc |-> ""], feature,
                             class2idx, class_var, 1)
        att == UpdateAttrs([m |-> attr_data, exc |-> cls.exc], feature,
                           idxs, values, 1)
    IN  IF att.exc # ""
        THEN /\ exc' = att.exc
             /\ class_data' = cls.m
             /\ attr_data' = att.m
             /\ UNCHANGED <<feature, idx>>
        ELSE /\ class_data' = cls.m
             /\ attr_data' = att.m
             /\ feature' = feature + 1
             /\ idx' = IF idxs = <<>> THEN idx ELSE Last(idxs)
             /\ exc' = ""

\* the next line of the data section
ReadRow ==
    /\ section = "d" /\ exc = "" /\ ret = NoRet
    /\ Len(file.rows) < MaxRows
    /\ \E values \in DataRows(file.header) :
          /\ file' = [file EXCEPT !.rows = Append(@, values)]
          /\ ReadValues(values)
    /\ UNCHANGED <<include_meta, section, pos, class2idx, attr2idx, idx_attr,
                   idx_class, used_idx, idxs, ret>>
    /\ UNCHANGED <<avars, pvars, jvars>>

\* line 178, at the end of the file
Return ==
    /\ section = "d" /\ exc = ""
    /\ ret = NoRet
    /\ ret' = IF include_meta
              THEN [returned |-> TRUE, meta |-> TRUE,
                    data |-> [feat |-> feature, attr |-> attr_data,
                              class |-> class_data],
                    idx2attr |-> _reverse(attr2idx),
                    idx2class |-> _reverse(class2idx)]
              ELSE [returned |-> TRUE, meta |-> FALSE,
                    data |-> [feat |-> feature,
                              attr |-> RowSlice(attr_data, feature),
                              class |-> class_data],
                    idx2attr |-> EmptyDict,
                    idx2class |-> EmptyDict]
    /\ UNCHANGED <<file, include_meta, section, pos, class2idx, attr2idx,
                   idx_attr, idx_class, idx, feature, used_idx, idxs,
                   attr_data, class_data, exc>>
    /\ UNCHANGED <<avars, pvars, jvars>>

TransformNext == ReadAttribute \/ ReadData \/ ReadOther \/ ReadRow \/ Return

SpecTransform == TransformInit /\ [][TransformNext]_vars

----------------------------------------------------------------------------
(* assign_labels, lines 298-380.  Correlations and thresholds are counted  *)
(* in thousandths, so the products and sums below are exact.               *)

\* x / d of numpy floats, d an integer count: a quotient, or inf, -inf or
\* nan when d is 0
FloatDiv(x, d) ==
    IF d # 0 THEN [fp |-> "finite", num |-> x, den |-> d]
    ELSE IF x > 0 THEN [fp |-> "inf", num |-> 1, den |-> 0]
    ELSE IF x < 0 THEN [fp |-> "-inf", num |-> -1, den |-> 0]
    ELSE [fp |-> "nan", num |-> 0, den |-> 0]

\* a > b of two such floats (den > 0 when finite)
FloatGt(a, b) ==
    CASE a.fp = "nan" \/ b.fp = "nan" -> FALSE
      [] a.fp = "inf" -> b.fp # "inf"
      [] a.fp = "-inf" -> FALSE
      [] b.fp = "inf" -> FALSE
      [] b.fp = "-inf" -> TRUE
      [] OTHER -> a.num * b.den > b.num * a.den

\* a >= t of such a float and a finite number t
FloatGe(a, t) ==
    CASE a.fp = "nan" -> FALSE
      [] a.fp = "inf" -> TRUE
      [] a.fp = "-inf" -> FALSE
      [] OTHER -> a.num >= t * a.den

\* corrs[:n_train, test_idx]: the correlations of the train genes with one
\* test gene, a 1-d array
CorrColumn(c, t) == c.cols[t]

\* train['class'][:, cl_idx], a column of the class matrix
ClassColumnOf(tr, cl_idx) == [g \in 1..Len(tr.class) |-> tr.class[g][cl_idx + 1]]

\* column != 0, as 0 and 1
NonZero(col) == [g \in 1..Len(col) |-> IF col[g] # 0 THEN 1 ELSE 0]

\* (column != 0).sum()
RECURSIVE CountNonZero(_, _)
CountNonZero(col, n) ==
    IF n = 0 THEN 0
    ELSE CountNonZero(col, n - 1) + (IF col[n] # 0 THEN 1 ELSE 0)

\* np.dot(x, col) of a 1-d array and a column of the same length
RECURSIVE Dot(_, _, _)
Dot(x, col, n) == IF n = 0 THEN 0 ELSE Dot(x, col, n - 1) + x[n] * col[n]

\* np.multiply(x, col).max() of a 1-d array x, shape (n,), and a column,
\* shape (n, 1): the two broadcast to the n-by-n matrix of the products
\* col[i] * x[j], and max() is the greatest of all of them
MultiplyMax(x, col) ==
    MaxOf({col[i] * x[j] : i \in 1..Len(col), j \in 1..Len(x)})

\* the average rule with the weights left out of the first sum
AverageRuleUnweighted(x, col, n_train) ==
    LET count == CountNonZero(col, Len(col))
        avg_corr_A == FloatDiv(Dot(x, NonZero(col), n_train), count)
        avg_corr_B == FloatDiv(Dot(x, NonZero(col), n_train), n_train - count)
    IN  IF count = 0 THEN "continue"
        ELSE IF FloatGt(avg_corr_A, avg_corr_B) THEN "append" ELSE "continue"

\* lines 351-359: "append", or "continue" for a category that is skipped or
\* not assigned
AverageRule(x, col, n_train) ==
    LET count == CountNonZero(col, Len(col))
        avg_corr_A == FloatDiv(Dot(x, col, n_train), count)
        avg_corr_B == FloatDiv(Dot(x, NonZero(col), n_train), n_train - count)
    IN  IF count = 0 THEN "continue"
        ELSE IF FloatGt(avg_corr_A, avg_corr_B) THEN "append" ELSE "continue"

\* lines 360-364
MaximalRule(x, col, n_train) ==
    LET max_corr_A == MultiplyMax(x, col)
        max_corr_B == MultiplyMax(x, NonZero(col))
    IN  IF max_corr_A > max_corr_B THEN "append" ELSE "continue"

\* the threshold rule with a strict comparison
ThresholdRuleStrict(x, col, n_train, threshold) ==
    LET count == CountNonZero(col, Len(col))
        avg_corr == FloatDiv(Dot(x, col, n_train), count)
    IN  IF count = 0 THEN "continue"
        ELSE IF FloatGt(avg_corr, FloatDiv(threshold, 1)) THEN "append"
        ELSE "continue"

\* lines 365-372
ThresholdRule(x, col, n_train, threshold) ==
    LET count == CountNonZero(col, Len(col))
        avg_corr == FloatDiv(Dot(x, col, n_train), count)
    IN  IF count = 0 THEN "continue"
        ELSE IF FloatGe(avg_corr, threshold) THEN "append" ELSE "continue"

\* lines 351-374: the body of the loop over the categories
Rule(m, x, col, n_train) ==
    IF m.type = "str" /\ m.val = "average" THEN AverageRule(x, col, n_train)
    ELSE IF m.type = "str" /\ m.val = "maximal" THEN MaximalRule(x, col, n_train)
    ELSE IF m.type = "float" THEN ThresholdRule(x, col, n_train, m.val)
    ELSE "raise"

----------------------------------------------------------------------------
(* The calls of assign_labels.                                             *)

\* correlations, in thousandths
CorrVals == {-1000, 1, 1000}

\* class weights: sums of the credits 4, 3, 2, 1
WeightVals == {0, 1, 4}

\* the method argument: a rule's name, a threshold, anything else; a call
\* that passes none has the default
Methods ==
    {[type |-> "str", val |-> v] : v \in {"average", "maximal", "bogus"}}
      \cup {[type |-> "float", val |-> v] : v \in {DefaultThreshold, 500}}

\* numbers of test genes and of categories
Shapes == {<<0, 0>>, <<0, 1>>, <<1, 0>>, <<1, 1>>, <<1, 2>>, <<2, 1>>}

AssignInit ==
    /\ \E n_train \in 1..MaxTrain : \E sh \in Shapes :
          /\ train \in {[feat |-> n_train, class |-> w] :
                          w \in [1..n_train -> [1..sh[2] -> WeightVals]]}
          /\ corrs \in {[shape0 |-> n_train + sh[1], cols |-> c] :
                          c \in [n_train..(n_train + sh[1] - 1) ->
                                   [1..n_train -> CorrVals]]}
          /\ idx2class = Enumerate(Take(KeyPath, sh[2]))
    /\ method \in Methods
    /\ test_idx = train.feat
    /\ todo = <<>>
    /\ labels = EmptyDict
    /\ key = 0
    /\ assigned = "loop"
    /\ TransformIdle
    /\ PreprocessIdle
    /\ JoinIdle

\* the keys of a dict of indices, in the order a loop walks them
KeysInOrder(d) == [i \in 1..Cardinality(DOMAIN d) |-> i - 1]

\* lines 348-349: the next test gene
NextGene ==
    /\ assigned = "loop"
    /\ test_idx < corrs.shape0
    /\ labels' = IF key \in DOMAIN labels THEN labels ELSE DictSet(labels, key, <<>>)
    /\ todo' = KeysInOrder(idx2class)
    /\ assigned' = "classes"
    /\ UNCHANGED <<corrs, train, idx2class, method, test_idx, key>>
    /\ UNCHANGED <<tvars, pvars, jvars>>

\* lines 350-374: one category of the gene
Classify ==
    /\ assigned = "classes"
    /\ todo # <<>>
    /\ LET cl_idx == Head(todo)
           verdict == Rule(method, CorrColumn(corrs, test_idx),
                           ClassColumnOf(train, cl_idx), train.feat)
       IN  /\ labels' = IF verdict = "append"
                        THEN [labels EXCEPT ![key] = Append(@, cl_idx)]
                        ELSE labels
           /\ assigned' = IF verdict = "raise" THEN "raised" ELSE assigned
    /\ todo' = Tail(todo)
    /\ UNCHANGED <<corrs, train, idx2class, method, test_idx, key>>
    /\ UNCHANGED <<tvars, pvars, jvars>>

\* lines 375-377: the gene is done
EndGene ==
    /\ assigned = "classes"
    /\ todo = <<>>
    /\ key' = key + 1
    /\ test_idx' = test_idx + 1
    /\ assigned' = "loop"
    /\ UNCHANGED <<corrs, train, idx2class, method, todo, labels>>
    /\ UNCHANGED <<tvars, pvars, jvars>>

\* line 380
ReturnLabels ==
    /\ assigned = "loop"
    /\ test_idx >= corrs.shape0
    /\ assigned' = "returned"
    /\ UNCHANGED <<corrs, train, idx2class, method, test_idx, todo, labels, key>>
    /\ UNCHANGED <<tvars, pvars, jvars>>

AssignNext == NextGene \/ Classify \/ EndGene \/ ReturnLabels

SpecAssign == AssignInit /\ [][AssignNext]_vars

----------------------------------------------------------------------------
(* preprocess, lines 209-222.  The attribute matrix holds whole numbers     *)
(* here; a float64 is written n + e * eps, with eps the machine epsilon.    *)

\* the magnitudes an attribute matrix holds
AttrVals == {0, 1, 2, 3}

\* the attribute matrices: up to MaxRows genes, one column per attribute name
AttrMatrices ==
    UNION {UNION {{[shape0 |-> n, shape1 |-> m, data |-> d] :
                       d \in [1..n -> [1..m -> AttrVals]]} :
                  m \in 1..Cardinality(AttrNames)} :
           n \in 0..MaxRows}

\* the cells of a matrix with all its rows present
Cells(M) == {M.data[i][j] : i \in 1..M.shape0, j \in 1..M.shape1}

\* d + np.finfo(float64).eps for a whole d >= 0, rounded to float64: eps is
\* half the spacing of the floats at 2 and less than half of it beyond, so
\* the sum rounds (to even) back to d from 2 on
AddEps(d) == IF d < 2 THEN [n |-> d, e |-> 1] ELSE [n |-> d, e |-> 0]

\* x / r of a float x = n + e * eps by a whole r: a quotient, or inf for
\* r = 0 (x > 0 always)
EpsDiv(x, r) ==
    IF r # 0 THEN [fp |-> "finite", n |-> x.n, e |-> x.e, den |-> r]
    ELSE [fp |-> "inf", n |-> 1, e |-> 0, den |-> 0]

\* line 220: (attr - attr.min() + eps) / (attr.max() - attr.min())
Normalize(M) ==
    LET min == MinOf(Cells(M))
        max == MaxOf(Cells(M))
    IN  [M EXCEPT !.data =
            [i \in 1..M.shape0 |->
                [j \in 1..M.shape1 |->
                    EpsDiv(AddEps(M.data[i][j] - min), max - min)]]]

PreprocessInit ==
    /\ data \in {[attr |-> M] : M \in AttrMatrices}
    /\ normalized = "start"
    /\ TransformIdle /\ AssignIdle /\ JoinIdle

\* the whole call; min() of a matrix without cells raises ValueError
Preprocess ==
    /\ normalized = "start"
    /\ IF Cells(data.attr) = {}
       THEN normalized' = "raised" /\ data' = data
       ELSE normalized' = "done"
            /\ data' = [data EXCEPT !.attr = Normalize(data.attr)]
    /\ UNCHANGED <<tvars, avars, jvars>>

PreprocessNext == Preprocess

SpecPreprocess == PreprocessInit /\ [][PreprocessNext]_vars

----------------------------------------------------------------------------
(* _join, lines 180-195.                                                   *)

\* all the rows of a matrix, the untouched ones zero
Dense(M) == [i \in 1..M.shape0 |-> RowOf(M, i - 1)]

\* np.vstack((A, B)): ValueError unless the two have as many columns
VStack(A, B) ==
    IF A.shape1 # B.shape1 THEN [exc |-> "ValueError", m |-> NoMatrix]
    ELSE [exc |-> "",
          m |-> [shape0 |-> A.shape0 + B.shape0, shape1 |-> A.shape1,
                 data |-> Dense(A) \o Dense(B)]]

\* the join that stacks the whole matrices
_joinUnsliced(a, b) ==
    LET n_train == a.feat
        n_valid == b.feat
        attr == VStack(a.attr, b.attr)
        class == VStack(a.class, b.class)
    IN  IF attr.exc # "" THEN [exc |-> attr.exc, data |-> NoDataset]
        ELSE IF class.exc # "" THEN [exc |-> class.exc, data |-> NoDataset]
        ELSE [exc |-> "",
              data |-> [feat |-> n_train + n_valid, attr |-> attr.m,
                        class |-> class.m]]

\* lines 191-195
_join(a, b) ==
    LET n_train == a.feat
        n_valid == b.feat
        attr == VStack(RowSlice(a.attr, n_train), RowSlice(b.attr, n_valid))
        class == VStack(RowSlice(a.class, n_train), RowSlice(b.class, n_valid))
    IN  IF attr.exc # "" THEN [exc |-> attr.exc, data |-> NoDataset]
        ELSE IF class.exc # "" THEN [exc |-> class.exc, data |-> NoDataset]
        ELSE [exc |-> "",
              data |-> [feat |-> n_train + n_valid, attr |-> attr.m,
                        class |-> class.m]]

\* the genes of the joined files: a gene's kind sets its two rows
GeneKinds == {1, 2}

Widths == 1..2

AttrRowOf(v, k) == [j \in 1..k |-> v * j]

ClassRowOf(v, k) == [j \in 1..k |-> IF j = v THEN 4 ELSE 0]

\* what transform_data returns for these genes: the class matrix at full
\* capacity, the attribute matrix too when the registries were asked for
DatasetOf(genes, ka, kc, meta) ==
    [feat |-> Len(genes),
     attr |-> [shape0 |-> IF meta THEN Capacity ELSE Len(genes), shape1 |-> ka,
               data |-> [i \in 1..Len(genes) |-> AttrRowOf(genes[i], ka)]],
     class |-> [shape0 |-> Capacity, shape1 |-> kc,
                data |-> [i \in 1..Len(genes) |-> ClassRowOf(genes[i], kc)]]]

Datasets ==
    {DatasetOf(g, ka, kc, meta) :
        g \in UNION {[1..n -> GeneKinds] : n \in 0..MaxRows},
        ka \in Widths, kc \in Widths, meta \in BOOLEAN}

JoinInit ==
    /\ jtrain \in Datasets
    /\ valid \in Datasets
    /\ tv_data = NoDataset
    /\ joining = "start"
    /\ TransformIdle /\ AssignIdle /\ PreprocessIdle

\* the whole call
Join ==
    /\ joining = "start"
    /\ LET r == _join(jtrain, valid)
       IN  /\ joining' = IF r.exc = "" THEN "returned" ELSE "raised"
           /\ tv_data' = r.data
    /\ UNCHANGED <<jtrain, valid>>
    /\ UNCHANGED <<tvars, avars, pvars>>

JoinNext == Join

SpecJoin == JoinInit /\ [][JoinNext]_vars

----------------------------------------------------------------------------
(* Properties of transform_data.                                           *)

RECURSIVE SumOn(_, _)
SumOn(f, S) ==
    IF S = {} THEN 0
    ELSE LET x == CHOOSE x \in S : TRUE IN f[x] + SumOn(f, S \ {x})

\* the sum of the values of the function f
SumOver(f) == SumOn(f, DOMAIN f)

\* the declaration of the class attribute and the keys it lists
ClassColumn(header) ==
    CHOOSE c \in 1..Len(Decls(header)) : IsClassDecl(Decls(header)[c])

ListedKeys(header) == Last(Decls(header)[ClassColumn(header)])

HasClass(header) == \E c \in 1..Len(Decls(header)) : IsClassDecl(Decls(header)[c])

\* 1 when the registry holds key k at index c
At(k, c) == IF k \in DOMAIN class2idx /\ class2idx[k] = c THEN 1 ELSE 0

\* what label p1/p2/p3/p4 adds to column c of the class matrix
Credit(label, c) ==
    4 * At(label, c)
      + 3 * At(<<label[1], label[2], label[3], "0">>, c)
      + 2 * At(<<label[1], label[2], "0", "0">>, c)
      + At(<<label[1], "0", "0", "0">>, c)

\* the labels of data row g (from 0)
LabelsOfRow(g) == file.rows[g + 1][ClassColumn(file.header)]

\* what the labels ls of a row add to column c of the class matrix
RowCredit(ls, c) == SumOver([n \in 1..Len(ls) |-> Credit(ls[n], c)])

\* C1: every row g of the class matrix that transform_data has filled is, cell
\* by cell, the sum over the labels p1/p2/p3/p4 of row g of 4 at the index
\* of p1/p2/p3/p4, 3 at p1/p2/p3/0, 2 at p1/p2/0/0 and 1 at p1/0/0/0, for the
\* keys of these that the registry holds, and 0 elsewhere; rows not yet
\* filled are zero (while no row has raised an exception).  With all four
\* keys of the path 1/2/3/4 registered, a gene labelled 1/2/3/4 has 1, 2, 3
\* and 4 in their four cells.
HierarchyPropagation ==
    (section = "d" /\ exc = "") =>
        LET col == ClassColumn(file.header)
            columns == 0..(class_data.shape1 - 1)
            full == DOMAIN class2idx = KeyUniverse
                      /\ Cardinality(Range(class2idx)) = 4
        IN  /\ \A g \in 0..(feature - 1) :
                  LET ls == file.rows[g + 1][col]
                  IN  /\ \A c \in columns : Cell(class_data, g, c) = RowCredit(ls, c)
                      /\ (ls = <<K4>> /\ full) =>
                            /\ Cell(class_data, g, class2idx[K1]) = 1
                            /\ Cell(class_data, g, class2idx[K2]) = 2
                            /\ Cell(class_data, g, class2idx[K3]) = 3
                            /\ Cell(class_data, g, class2idx[K4]) = 4
                            /\ class_data.shape1 = 4
            /\ \A c \in columns : Cell(class_data, feature, c) = 0

\* a second row carrying two labels, after a first labelled 1/2/3/4, under
\* the registry of all four keys
HierarchyPropagationWitness ==
    /\ section = "d" /\ exc = "" /\ feature = 2
    /\ DOMAIN class2idx = KeyUniverse /\ Cardinality(Range(class2idx)) = 4
    /\ LabelsOfRow(0) = <<K4>>
    /\ LabelsOfRow(1) = <<K2, K4>>
    /\ Cell(class_data, 1, class2idx[K2]) = 4 + 3 + 2 + 2
    /\ Cell(class_data, 1, class2idx[K1]) = 2

\* C7: without the registries both returned matrices have feature_count rows,
\* with them both have the pre-allocated capacity.
RowCountOfOutputs ==
    ret.returned =>
        IF ret.meta
        THEN ret.data.attr.shape0 = Capacity /\ ret.data.class.shape0 = Capacity
        ELSE ret.data.attr.shape0 = ret.data.feat
               /\ ret.data.class.shape0 = ret.data.feat

\* f and g are inverse bijections between the sets A and B
InverseBijections(f, g, A, B) ==
    /\ DOMAIN f = A /\ DOMAIN g = B
    /\ \A x \in A : f[x] \in B /\ g[f[x]] = x
    /\ \A y \in B : g[y] \in A /\ f[g[y]] = y

\* the names declared numeric, in declaration order
NumericNames(header) ==
    LET decls == Decls(header)
        nums == SelectSeq(decls, IsNumDecl)
    IN  [i \in 1..Len(nums) |-> nums[i][2][1][1]]

Distinct(s) == \A i, j \in 1..Len(s) : s[i] = s[j] => i = j

\* the registries and their reverses round-trip over the declared entries
ClassRoundTrip ==
    LET keys == ListedKeys(file.header)
    IN  /\ InverseBijections(class2idx, ret.idx2class, Range(keys), 0..(Len(keys) - 1))
        /\ \A i \in 1..Len(keys) : ret.idx2class[i - 1] = keys[i]

AttrRoundTrip ==
    LET names == NumericNames(file.header)
    IN  /\ InverseBijections(attr2idx, ret.idx2attr, Range(names), 0..(Len(names) - 1))
        /\ \A i \in 1..Len(names) : ret.idx2attr[i - 1] = names[i]

\* C8 as stated: for every header the registries and the reversed maps
\* returned are inverse bijections onto 0..C-1 and 0..F-1, C and F the
\* numbers of keys and of numeric attributes listed.
RegistryRoundTripAnyHeader ==
    (ret.returned /\ ret.meta) =>
        /\ HasClass(file.header) => ClassRoundTrip
        /\ AttrRoundTrip

\* C8 amended: the same for a class declaration that lists no key twice, and
\* for numeric attribute names declared once each.
RegistryRoundTrip ==
    (ret.returned /\ ret.meta) =>
        /\ (HasClass(file.header) /\ Distinct(ListedKeys(file.header))) => ClassRoundTrip
        /\ Distinct(NumericNames(file.header)) => AttrRoundTrip

RegistryRoundTripWitness ==
    /\ ret.returned /\ ret.meta
    /\ HasClass(file.header)
    /\ ListedKeys(file.header) = <<K2, K1>>
    /\ NumericNames(file.header) = <<"b", "a">>
    /\ ret.idx2class[0] = K2 /\ ret.idx2attr[1] = "a"

\* the absolute value a numeric text stands for, "?" standing for zero
Magnitude(cell) ==
    CASE cell = Tok("?") -> 0
      [] cell = Tok("-1") -> 1
      [] cell = Tok("2") -> 2

\* the column (from 1) at which numeric attribute name is declared
DeclaredColumn(header, name) ==
    CHOOSE c \in 1..Len(Decls(header)) :
        IsNumDecl(Decls(header)[c]) /\ Decls(header)[c][2] = Tok(name)

\* C10: in every row read, the attribute matrix holds at the registry index
\* of each numeric attribute the absolute value found at that attribute's
\* declared column ("?" as 0).
AttributeCells ==
    (section = "d" /\ Distinct(NumericNames(file.header))) =>
        \A g \in 0..(feature - 1) : \A name \in DOMAIN attr2idx :
            Cell(attr_data, g, attr2idx[name])
              = Magnitude(file.rows[g + 1][DeclaredColumn(file.header, name)])

----------------------------------------------------------------------------
(* Properties of assign_labels.                                            *)

\* test gene k (its key) has been through all the categories
Done(k) == k \in DOMAIN labels /\ k < key

\* category c is among the labels of test gene k
Assigned(k, c) == \E i \in 1..Len(labels[k]) : labels[k][i] = c

\* the correlation of train gene g (from 1) with test gene k
Corr(g, k) == corrs.cols[train.feat + k][g]

\* trainClassMatrix[g, c]
Weight(g, c) == train.class[g][c + 1]

TrainGenes == 1..train.feat

\* the train genes of nonzero and of zero weight at category c
Labelled(c) == {g \in TrainGenes : Weight(g, c) # 0}

Unlabelled(c) == {g \in TrainGenes : Weight(g, c) = 0}

IsMethod(name) == method.type = "str" /\ method.val = name

\* C2: under the maximal rule c is assigned to t iff the greatest
\* correlation(g,t) * weight(g,c) over the nonzero-weight train genes exceeds
\* the greatest correlation(g,t) over the zero-weight train genes.
MaximalRuleAsStated ==
    IsMethod("maximal") =>
        \A k \in DOMAIN labels : \A c \in DOMAIN idx2class :
            (Done(k) /\ Labelled(c) # {} /\ Unlabelled(c) # {}) =>
                (Assigned(k, c) <=>
                    MaxOf({Corr(g, k) * Weight(g, c) : g \in Labelled(c)})
                      > MaxOf({Corr(g, k) : g \in Unlabelled(c)}))

\* the two sums of the average rule, over all the train genes
WeightedSum(k, c) == SumOver([g \in TrainGenes |-> Corr(g, k) * Weight(g, c)])

IndicatorSum(k, c) ==
    SumOver([g \in TrainGenes |-> IF Weight(g, c) # 0 THEN Corr(g, k) ELSE 0])

AverageRuleAsDocumented ==
    IsMethod("average") =>
        \A k \in DOMAIN labels : \A c \in DOMAIN idx2class :
            (Done(k) /\ Labelled(c) # {} /\ Unlabelled(c) # {}) =>
                (Assigned(k, c) <=>
                    WeightedSum(k, c) * Cardinality(Unlabelled(c))
                      > SumOver([g \in Unlabelled(c) |-> Corr(g, k)])
                          * Cardinality(Labelled(c)))

\* C5: with a method that is no rule's name and no threshold the call
\* raises, whatever the input: it never returns a label map.
UnrecognizedRuleRaises ==
    (method.type = "str" /\ method.val \notin {"average", "maximal"}) =>
        assigned # "returned"

\* C6: under the threshold rule, with A the sum over the nonzero-weight
\* train genes of correlation * weight divided by their number, c is
\* assigned to t iff A >= the threshold; a category without such a gene is
\* skipped, without an error.  0.001 is the default threshold.
ThresholdRuleHolds ==
    /\ DefaultThreshold = 1
    /\ method.type = "float" =>
        /\ assigned # "raised"
        /\ \A k \in DOMAIN labels : \A c \in DOMAIN idx2class :
              Done(k) =>
                /\ Labelled(c) = {} => ~Assigned(k, c)
                /\ Labelled(c) # {} =>
                      (Assigned(k, c) <=>
                          SumOver([g \in Labelled(c) |-> Corr(g, k) * Weight(g, c)])
                            >= method.val * Cardinality(Labelled(c)))

\* the default threshold met exactly: one labelled gene of weight 1 and
\* correlation 0.001
ThresholdRuleWitness ==
    /\ method = [type |-> "float", val |-> DefaultThreshold]
    /\ assigned = "returned"
    /\ \E k \in DOMAIN labels : \E c \in DOMAIN idx2class :
          /\ Assigned(k, c)
          /\ \E g \in Labelled(c) :
                Labelled(c) = {g} /\ Weight(g, c) = 1 /\ Corr(g, k) = DefaultThreshold

----------------------------------------------------------------------------
(* Properties of preprocess.                                               *)

\* comparisons of an output cell n/den + e * eps/den with 0 and 1
Positive(x) == x.fp = "inf" \/ (x.den > 0 /\ (x.n > 0 \/ x.e = 1))

ExceedsOne(x) ==
    x.fp = "inf" \/ (x.den > 0 /\ (x.n > x.den \/ (x.n = x.den /\ x.e = 1)))

IsOne(x) == x.fp = "finite" /\ x.n = x.den /\ x.e = 0

\* the matrix had two different cells: no output cell is inf
NonConstant(M) == \A x \in Cells(M) : x.fp = "finite"

\* C9: every cell of the normalized matrix of a non-constant matrix lies in
\* (0, 1]: the least cell is greater than 0 and the greatest cell equals 1.
NormalizerRange ==
    (normalized = "done" /\ NonConstant(data.attr)) =>
        /\ \A x \in Cells(data.attr) : Positive(x) /\ ~ExceedsOne(x)
        /\ \E x \in Cells(data.attr) : IsOne(x)

----------------------------------------------------------------------------
(* Properties of _join.                                                    *)

\* M is the first nA rows of A followed by the first nB rows of B, and no
\* row more
Stacked(M, A, nA, B, nB) ==
    /\ M.shape0 = nA + nB
    /\ Len(M.data) = nA + nB
    /\ M.shape1 = A.shape1
    /\ \A i \in 0..(nA + nB - 1) :
          RowOf(M, i) = IF i < nA THEN RowOf(A, i) ELSE RowOf(B, i - nA)

JoinedAsStated ==
    /\ joining = "returned"
    /\ tv_data.feat = jtrain.feat + valid.feat
    /\ Stacked(tv_data.attr, jtrain.attr, jtrain.feat, valid.attr, valid.feat)
    /\ Stacked(tv_data.class, jtrain.class, jtrain.feat, valid.class, valid.feat)

SameColumns ==
    /\ jtrain.attr.shape1 = valid.attr.shape1
    /\ jtrain.class.shape1 = valid.class.shape1

\* C11 as stated: for all transformed datasets a and b the call gives a
\* dataset whose feature count is the sum of the two, whose attribute and
\* class matrices are a's first feature-count rows followed by b's, in order,
\* and which has exactly that many rows.
JoinerAnyDatasets ==
    joining \in {"returned", "raised"} => JoinedAsStated

\* C11 amended: the same for two datasets with as many attribute columns
\* and as many category columns as each other.
Joiner ==
    (joining \in {"returned", "raised"} /\ SameColumns) => JoinedAsStated

\* two padded datasets of two genes each that share a gene, joined to four
\* rows
JoinerWitness ==
    /\ joining = "returned"
    /\ jtrain.feat = 2 /\ valid.feat = 2
    /\ jtrain.attr.shape0 = Capacity /\ valid.class.shape0 = Capacity
    /\ RowOf(jtrain.attr, 1) = RowOf(valid.attr, 0)
    /\ RowOf(jtrain.attr, 0) # RowOf(jtrain.attr, 1)
    /\ tv_data.feat = 4 /\ tv_data.attr.shape0 = 4 /\ tv_data.class.shape0 = 4
    /\ RowOf(tv_data.attr, 2) = RowOf(tv_data.attr, 1)

====
